---- MODULE Spec2Model ----
(***************************************************************************)
(* Model of dali/plugin/input/csv/binance.py: InputPlugin.load, the        *)
(* Binance.us CSV input plugin.  A file is a sequence of parsed CSV lines  *)
(* (each a sequence of string fields); load opens it, skips the header,    *)
(* and maps every following line to at most one transaction record.        *)
(* Strings are TLA+ strings; strip, join and formatting are computed.      *)
(***************************************************************************)
EXTENDS Integers, Sequences, FiniteSets, TLC

(* ------------------------------------------------------------------ *)
(* Bounds of the model                                                  *)
(* ------------------------------------------------------------------ *)
MaxRows == 2

(* ------------------------------------------------------------------ *)
(* Program constants (binance.py:34-61)                                 *)
(* ------------------------------------------------------------------ *)
CRYPTO_DEPOSIT == "Crypto Deposit"
SELL == "Sell"
BUY == "Buy"
CRYPTO_WITHDRAWAL == "Crypto Withdrawal"
USD_DEPOSIT == "USD Deposit"
REFERRAL_COMMISSION == "Referral Commission"
STAKING_REWARDS == "Staking Rewards"
OTHERS == "Others"

BINANCE == "Binance.us"

TIMESTAMP_INDEX == 1
TRANSACTION_CATEGORY_INDEX == 2
TRANSACTION_TYPE_INDEX == 3
TRANSACTION_ID_INDEX == 5
CURRENCY_INDEX == 6
BASE_ASSET_INDEX == 9
BASE_ASSET_AMOUNT_INDEX == 10
BASE_ASSET_AMOUNT_SPOT_PRICE_INDEX == 11
PRIMARY_ASSET_AMOUNT == 7
PRIMARY_ASSET_SPOT_PRICE == 8

DELIMITER == ","

(* Values of dali.configuration.Keyword and AbstractInputPlugin.ISSUES_URL *)
(* used by load; their definitions live outside binance.py.                *)
Keyword_INCOME == "income"
Keyword_INTEREST == "interest"
Keyword_BUY == "buy"
Keyword_SELL == "sell"
Keyword_UNKNOWN == "unknown"
ISSUES_URL == "issues-url"

(* ------------------------------------------------------------------ *)
(* Python helpers used by load                                          *)
(* ------------------------------------------------------------------ *)
Whitespace == {" ", "\t"}

RECURSIVE LStrip(_)
LStrip(s) == IF Len(s) > 0 /\ Head(s) \in Whitespace THEN LStrip(Tail(s)) ELSE s

RECURSIVE RStrip(_)
RStrip(s) ==
    IF Len(s) > 0 /\ SubSeq(s, Len(s), Len(s)) \in Whitespace
    THEN RStrip(SubSeq(s, 1, Len(s) - 1))
    ELSE s

(* str.strip() *)
Strip(s) == RStrip(LStrip(s))

(* line[i] with Python's zero-based index; defined only for i < len(line) *)
At(line, i) == line[i + 1]

(* DELIMITER.join(line) *)
RECURSIVE Join(_)
Join(line) ==
    IF Len(line) = 0 THEN ""
    ELSE IF Len(line) = 1 THEN line[1]
    ELSE line[1] \o DELIMITER \o Join(Tail(line))

(* "%s" of a list of plain strings: ['a', 'b'] *)
RECURSIVE ReprItems(_)
ReprItems(line) ==
    IF Len(line) = 0 THEN ""
    ELSE IF Len(line) = 1 THEN "'" \o line[1] \o "'"
    ELSE "'" \o line[1] \o "', " \o ReprItems(Tail(line))

Repr(line) == "[" \o ReprItems(line) \o "]"

(* d1 | d2 on dicts: the keys of both, the right operand winning *)
Merge(d1, d2) == d2 @@ d1

(* ------------------------------------------------------------------ *)
(* Per-line computations of load (binance.py:86-217)                    *)
(* ------------------------------------------------------------------ *)

(* raw_data: the fields rejoined with the delimiter (line 86) *)
RawData(line) == Join(line)

(* transaction_type: the stripped discriminator field (line 90) *)
TransactionType(line) == Strip(At(line, TRANSACTION_TYPE_INDEX))

(* Mutant of TimestampWithTimezone: the UTC suffix is left out *)
TimestampWithoutTimezone(line) == Strip(At(line, TIMESTAMP_INDEX))

(* timestamp_with_timezone (line 95) *)
TimestampWithTimezone(line) == Strip(At(line, TIMESTAMP_INDEX)) \o " -00:00"

(* common_params (lines 97-103) *)
CommonParams(line) ==
    [ plugin    |-> BINANCE,
      unique_id |-> Strip(At(line, TRANSACTION_ID_INDEX)),
      raw_data  |-> RawData(line),
      timestamp |-> TimestampWithTimezone(line),
      notes     |-> Strip(At(line, TRANSACTION_CATEGORY_INDEX)) \o " - " \o TransactionType(line) ]

(* Mutant of Dispatch: no branch for Crypto Withdrawal *)
DispatchNoWithdrawal(transaction_type) ==
    IF transaction_type \in {REFERRAL_COMMISSION, STAKING_REWARDS} THEN "income"
    ELSE IF transaction_type = CRYPTO_DEPOSIT THEN "deposit"
    ELSE IF transaction_type \in {BUY, SELL} THEN "buy"
    ELSE IF transaction_type = SELL THEN "sell"
    ELSE IF transaction_type = USD_DEPOSIT THEN "usd_deposit"
    ELSE "unsupported"

(* Mutant of Dispatch: the Sell branch is tested before the Buy/Sell one *)
DispatchSellFirst(transaction_type) ==
    IF transaction_type \in {REFERRAL_COMMISSION, STAKING_REWARDS} THEN "income"
    ELSE IF transaction_type = CRYPTO_DEPOSIT THEN "deposit"
    ELSE IF transaction_type = CRYPTO_WITHDRAWAL THEN "withdrawal"
    ELSE IF transaction_type = SELL THEN "sell"
    ELSE IF transaction_type \in {BUY, SELL} THEN "buy"
    ELSE IF transaction_type = USD_DEPOSIT THEN "usd_deposit"
    ELSE "unsupported"

(* The if/elif chain of lines 109-217: the branch taken for a stripped    *)
(* transaction type, tested top to bottom.                                 *)
Dispatch(transaction_type) ==
    IF transaction_type \in {REFERRAL_COMMISSION, STAKING_REWARDS} THEN "income"
    ELSE IF transaction_type = CRYPTO_DEPOSIT THEN "deposit"
    ELSE IF transaction_type = CRYPTO_WITHDRAWAL THEN "withdrawal"
    ELSE IF transaction_type \in {BUY, SELL} THEN "buy"
    ELSE IF transaction_type = SELL THEN "sell"
    ELSE IF transaction_type = USD_DEPOSIT THEN "usd_deposit"
    ELSE "unsupported"

(* Mutant of GranularTransactionType: the two keywords exchanged *)
GranularTransactionTypeSwapped(transaction_type) ==
    IF transaction_type = REFERRAL_COMMISSION THEN Keyword_INTEREST ELSE Keyword_INCOME

(* granular_transaction_type (line 110) *)
GranularTransactionType(transaction_type) ==
    IF transaction_type = REFERRAL_COMMISSION THEN Keyword_INCOME ELSE Keyword_INTEREST

(* InTransaction of lines 113-128 *)
IncomeTransaction(line, holder) ==
    [class |-> "InTransaction"] @@
    Merge(CommonParams(line),
          [ asset            |-> Strip(At(line, CURRENCY_INDEX)),
            exchange         |-> BINANCE,
            holder           |-> holder,
            transaction_type |-> GranularTransactionType(TransactionType(line)),
            spot_price       |-> Strip(At(line, PRIMARY_ASSET_SPOT_PRICE)),
            crypto_in        |-> Strip(At(line, PRIMARY_ASSET_AMOUNT)),
            fiat_fee         |-> "0" ])

(* Mutant of DepositTransaction: the two sides exchanged *)
DepositTransactionSwapped(line, holder) ==
    [class |-> "IntraTransaction"] @@
    Merge(CommonParams(line),
          [ asset           |-> Strip(At(line, CURRENCY_INDEX)),
            crypto_sent     |-> "0",
            crypto_received |-> Strip(At(line, PRIMARY_ASSET_AMOUNT)),
            spot_price      |-> Strip(At(line, PRIMARY_ASSET_SPOT_PRICE)),
            from_exchange   |-> BINANCE,
            from_holder     |-> holder,
            to_exchange     |-> Keyword_UNKNOWN,
            to_holder       |-> Keyword_UNKNOWN ])

(* IntraTransaction of lines 132-150 *)
DepositTransaction(line, holder) ==
    [class |-> "IntraTransaction"] @@
    Merge(CommonParams(line),
          [ asset           |-> Strip(At(line, CURRENCY_INDEX)),
            crypto_sent     |-> "0",
            crypto_received |-> Strip(At(line, PRIMARY_ASSET_AMOUNT)),
            spot_price      |-> Strip(At(line, PRIMARY_ASSET_SPOT_PRICE)),
            from_exchange   |-> Keyword_UNKNOWN,
            from_holder     |-> Keyword_UNKNOWN,
            to_exchange     |-> BINANCE,
            to_holder       |-> holder ])

(* Mutant of WithdrawalTransaction: the amount is written to both sides *)
WithdrawalTransactionBothAmounts(line, holder) ==
    [class |-> "IntraTransaction"] @@
    Merge(CommonParams(line),
          [ crypto_received |-> Strip(At(line, PRIMARY_ASSET_AMOUNT)),
            asset           |-> Strip(At(line, CURRENCY_INDEX)),
            crypto_sent     |-> Strip(At(line, PRIMARY_ASSET_AMOUNT)),
            spot_price      |-> Strip(At(line, PRIMARY_ASSET_SPOT_PRICE)),
            from_exchange   |-> BINANCE,
            from_holder     |-> holder,
            to_exchange     |-> Keyword_UNKNOWN,
            to_holder       |-> Keyword_UNKNOWN ])

(* IntraTransaction of lines 153-172 *)
WithdrawalTransaction(line, holder) ==
    [class |-> "IntraTransaction"] @@
    Merge(CommonParams(line),
          [ crypto_received |-> "0",
            asset           |-> Strip(At(line, CURRENCY_INDEX)),
            crypto_sent     |-> Strip(At(line, PRIMARY_ASSET_AMOUNT)),
            spot_price      |-> Strip(At(line, PRIMARY_ASSET_SPOT_PRICE)),
            from_exchange   |-> BINANCE,
            from_holder     |-> holder,
            to_exchange     |-> Keyword_UNKNOWN,
            to_holder       |-> Keyword_UNKNOWN ])

(* InTransaction of lines 174-191 *)
BuyTransaction(line, holder) ==
    [class |-> "InTransaction"] @@
    Merge(CommonParams(line),
          [ exchange         |-> BINANCE,
            holder           |-> holder,
            transaction_type |-> Keyword_BUY,
            asset            |-> Strip(At(line, BASE_ASSET_INDEX)),
            crypto_in        |-> Strip(At(line, BASE_ASSET_AMOUNT_INDEX)),
            spot_price       |-> Strip(At(line, BASE_ASSET_AMOUNT_SPOT_PRICE_INDEX)),
            crypto_fee       |-> Strip(At(line, BASE_ASSET_AMOUNT_SPOT_PRICE_INDEX)) ])

(* OutTransaction of lines 193-210 *)
SellTransaction(line, holder) ==
    [class |-> "OutTransaction"] @@
    Merge(CommonParams(line),
          [ exchange          |-> BINANCE,
            holder            |-> holder,
            transaction_type  |-> Keyword_SELL,
            assets            |-> Strip(At(line, BASE_ASSET_INDEX)),
            crypto_out_no_fee |-> Strip(At(line, BASE_ASSET_AMOUNT_INDEX)),
            spot_price        |-> Strip(At(line, BASE_ASSET_AMOUNT_SPOT_PRICE_INDEX)),
            crypto_fee        |-> Strip(At(line, BASE_ASSET_AMOUNT_SPOT_PRICE_INDEX)) ])

(* The positions every line is indexed at before the chain (lines 89-95) *)
CommonIndices ==
    { TRANSACTION_ID_INDEX, TRANSACTION_TYPE_INDEX, TRANSACTION_CATEGORY_INDEX,
      CURRENCY_INDEX, TIMESTAMP_INDEX }

(* The positions a branch of the chain indexes the line at *)
BranchIndices(branch) ==
    CASE branch = "income"     -> {CURRENCY_INDEX, PRIMARY_ASSET_SPOT_PRICE, PRIMARY_ASSET_AMOUNT}
      [] branch = "deposit"    -> {CURRENCY_INDEX, PRIMARY_ASSET_AMOUNT, PRIMARY_ASSET_SPOT_PRICE}
      [] branch = "withdrawal" -> {PRIMARY_ASSET_AMOUNT, PRIMARY_ASSET_SPOT_PRICE}
      [] branch = "buy"        -> {BASE_ASSET_INDEX, BASE_ASSET_AMOUNT_INDEX, BASE_ASSET_AMOUNT_SPOT_PRICE_INDEX}
      [] branch = "sell"       -> {BASE_ASSET_INDEX, BASE_ASSET_AMOUNT_INDEX, BASE_ASSET_AMOUNT_SPOT_PRICE_INDEX}
      [] OTHER                 -> {}

(* Mutant of OutOfRange: the last position of the line counts as past it *)
OutOfRangeOffByOne(line, indices) == \E i \in indices : i + 1 >= Len(line)

(* list indexing raises IndexError when the position is past the end *)
OutOfRange(line, indices) == \E i \in indices : i >= Len(line)

(* Whether processing the line raises IndexError *)
RaisesIndexError(line) ==
    IF OutOfRange(line, CommonIndices) THEN TRUE
    ELSE OutOfRange(line, BranchIndices(Dispatch(TransactionType(line))))

(* The transaction a branch appends to result; <<>> when it appends none *)
Appended(branch, line, holder) ==
    CASE branch = "income"     -> <<IncomeTransaction(line, holder)>>
      [] branch = "deposit"    -> <<DepositTransaction(line, holder)>>
      [] branch = "withdrawal" -> <<WithdrawalTransaction(line, holder)>>
      [] branch = "buy"        -> <<BuyTransaction(line, holder)>>
      [] branch = "sell"       -> <<SellTransaction(line, holder)>>
      [] OTHER                 -> <<>>

(* A call of self.__logger.<level>(msg, *args) *)
LogRecord(level, msg, args) == [level |-> level, msg |-> msg, args |-> args]

HeaderDebug(header) == LogRecord("debug", "Header: %s", <<Repr(header)>>)

TransactionDebug(line) == LogRecord("debug", "Transaction: %s", <<RawData(line)>>)

SkipDebug(line) == LogRecord("debug", "Skipping USD deposit %s", <<RawData(line)>>)

UnsupportedError(line) ==
    LogRecord("error", "Unsupported transaction type (skipping): %s. Please open an issue at %s",
              <<RawData(line), ISSUES_URL>>)

(* Mutant of Logged: an unsupported type is reported at debug level *)
LoggedUnsupportedAtDebug(branch, line) ==
    CASE branch = "usd_deposit" -> <<SkipDebug(line)>>
      [] branch = "unsupported" ->
            <<LogRecord("debug", UnsupportedError(line).msg, UnsupportedError(line).args)>>
      [] OTHER                  -> <<>>

(* What a branch logs after the per-line debug message *)
Logged(branch, line) ==
    CASE branch = "usd_deposit" -> <<SkipDebug(line)>>
      [] branch = "unsupported" -> <<UnsupportedError(line)>>
      [] OTHER                  -> <<>>

(* Mutant of Release: the file is left as it is *)
ReleaseLeak(h) == h

(* Leaving the with-block of line 77 closes the file, on return and on raise *)
Release(h) == "closed"

(* ------------------------------------------------------------------ *)
(* Inputs: constructor arguments and CSV files                          *)
(* ------------------------------------------------------------------ *)

(* The header line of the export (binance.py:15) *)
HEADER ==
    << "User_Id", "Time", "Category", "Operation", "Order_Id", "Transaction_Id",
       "Primary_Asset", "Realized_Amount_For_Primary_Asset",
       "Realized_Amount_For_Primary_Asset_In_USD_Value", "Base_Asset",
       "Realized_Amount_For_Base_Asset", "Realized_Amount_For_Base_Asset_In_USD_Value",
       "Quote_Asset", "Realized_Amount_For_Quote_Asset",
       "Realized_Amount_For_Quote_Asset_In_USD_Value", "Fee_Asset",
       "Realized_Amount_For_Fee_Asset", "Realized_Amount_For_Fee_Asset_In_USD_Value",
       "Payment_Method", "Withdrawal_Method", "Additional_Note" >>

(* A data line in the column order of the header *)
Row(time, category, operation, txid, primary, pAmount, pUsd, base, bAmount, bUsd) ==
    << "U1", time, category, operation, "", txid, primary, pAmount, pUsd,
       base, bAmount, bUsd, "", "", "", "", "", "", "", "", "" >>

EUR_DEPOSIT == "EUR Deposit"

Operations ==
    { REFERRAL_COMMISSION, STAKING_REWARDS, CRYPTO_DEPOSIT, CRYPTO_WITHDRAWAL,
      BUY, SELL, USD_DEPOSIT, EUR_DEPOSIT, OTHERS }

(* Lines as the exchange writes them: no padding *)
CleanRow(op) ==
    Row("2022-01-01 10:00:00", "Cat", op, "TX1", "ADA", "5.0", "4.50", "BTC", "0.1", "2000.00")

(* Lines with fields padded by whitespace and an empty transaction id *)
PaddedRow(op) ==
    Row(" 2022-01-02 08:00:00", "Earn ", " " \o op, "", " ETH", "1.5 ", " 3000.00",
        "BNB ", " 0.2", "40.00 ")

(* Lines whose primary amount is zero *)
ZeroRow(op) ==
    Row("2022-01-03 09:00:00", "Cat", op, "TX3", "ADA", "0.00", "0.00", "", "", "")

(* Lines cut after their first n fields: one field short of what their   *)
(* branch reads; n = 0 is a blank line                                    *)
ShortRows ==
    { SubSeq(CleanRow(c[1]), 1, c[2]) :
        c \in { <<BUY, 11>>, <<SELL, 9>>, <<STAKING_REWARDS, 8>>, <<REFERRAL_COMMISSION, 7>>,
                <<CRYPTO_DEPOSIT, 7>>, <<CRYPTO_WITHDRAWAL, 8>>, <<USD_DEPOSIT, 6>>,
                <<OTHERS, 4>>, <<OTHERS, 0>> } }

(* Lines cut right after the last field their branch reads *)
ExactRows ==
    { SubSeq(CleanRow(c[1]), 1, c[2]) :
        c \in { <<BUY, 12>>, <<STAKING_REWARDS, 9>>, <<OTHERS, 7>> } }

Rows ==
    { CleanRow(op) : op \in Operations }
    \cup { PaddedRow(op) : op \in {STAKING_REWARDS, CRYPTO_DEPOSIT, SELL} }
    \cup { ZeroRow(op) : op \in {CRYPTO_DEPOSIT, CRYPTO_WITHDRAWAL} }
    \cup ShortRows
    \cup ExactRows

RowSeqs == UNION { [1..k -> Rows] : k \in 0..MaxRows }

(* A file: unreadable, empty, or a header followed by data lines *)
Files ==
    { [readable |-> FALSE, lines |-> <<>>], [readable |-> TRUE, lines |-> <<>>] }
    \cup { [readable |-> TRUE, lines |-> <<HEADER>> \o rows] : rows \in RowSeqs }

NONE == "None"
NativeFiats == {NONE, "EUR"}
AccountHolders == {"alice"}

(* ------------------------------------------------------------------ *)
(* State                                                                *)
(* ------------------------------------------------------------------ *)
VARIABLES
    account_holder,        \* constructor argument
    native_fiat,           \* constructor argument
    transaction_csv_file,  \* the file at the path given to the constructor
    pc,                    \* "start", "header", "loop", "done", "failed"
    handle,                \* "none", "open", "closed": the file object of the with-block
    cursor,                \* position in the file's lines of the next line to read
    result,                \* the local list result
    log,                   \* the calls made on self.__logger, in order
    returned,              \* what load handed to its caller
    error                  \* the exception that left load, "" when none

vars ==
    << account_holder, native_fiat, transaction_csv_file, pc, handle, cursor,
       result, log, returned, error >>

NoReturn == [has |-> FALSE, value |-> <<>>]

(* __init__ (lines 63-72) and the first statement of load (line 75) *)
Init ==
    /\ account_holder \in AccountHolders
    /\ native_fiat \in NativeFiats
    /\ transaction_csv_file \in Files
    /\ pc = "start"
    /\ handle = "none"
    /\ cursor = 1
    /\ result = <<>>
    /\ log = <<>>
    /\ returned = NoReturn
    /\ error = ""

(* open(...) of line 77 *)
Open ==
    /\ pc = "start"
    /\ IF transaction_csv_file.readable
       THEN /\ handle' = "open"
            /\ pc' = "header"
            /\ error' = error
       ELSE /\ handle' = handle
            /\ pc' = "failed"
            /\ error' = "OSError"
    /\ UNCHANGED << account_holder, native_fiat, transaction_csv_file, cursor,
                    result, log, returned >>

(* next(lines) and the header debug message (lines 82-83) *)
ReadHeader ==
    /\ pc = "header"
    /\ IF Len(transaction_csv_file.lines) = 0
       THEN /\ handle' = Release(handle)
            /\ pc' = "failed"
            /\ error' = "StopIteration"
            /\ UNCHANGED << cursor, log >>
       ELSE /\ log' = Append(log, HeaderDebug(transaction_csv_file.lines[1]))
            /\ cursor' = 2
            /\ pc' = "loop"
            /\ UNCHANGED << handle, error >>
    /\ UNCHANGED << account_holder, native_fiat, transaction_csv_file, result, returned >>

(* One iteration of the for loop (lines 85-217) *)
ProcessLine ==
    /\ pc = "loop"
    /\ cursor <= Len(transaction_csv_file.lines)
    /\ LET line == transaction_csv_file.lines[cursor] IN
       IF RaisesIndexError(line)
       THEN /\ log' = Append(log, TransactionDebug(line))
            /\ handle' = Release(handle)
            /\ pc' = "failed"
            /\ error' = "IndexError"
            /\ UNCHANGED << cursor, result >>
       ELSE LET branch == Dispatch(TransactionType(line)) IN
            /\ log' = Append(log, TransactionDebug(line)) \o Logged(branch, line)
            /\ result' = result \o Appended(branch, line, account_holder)
            /\ cursor' = cursor + 1
            /\ UNCHANGED << handle, pc, error >>
    /\ UNCHANGED << account_holder, native_fiat, transaction_csv_file, returned >>

(* The loop is exhausted: the with-block is left and result returned (line 219) *)
Return ==
    /\ pc = "loop"
    /\ cursor > Len(transaction_csv_file.lines)
    /\ handle' = Release(handle)
    /\ returned' = [has |-> TRUE, value |-> result]
    /\ pc' = "done"
    /\ UNCHANGED << account_holder, native_fiat, transaction_csv_file, cursor,
                    result, log, error >>

Next == Open \/ ReadHeader \/ ProcessLine \/ Return

Spec == Init /\ [][Next]_vars

(* ------------------------------------------------------------------ *)
(* Vocabulary of the properties                                         *)
(* ------------------------------------------------------------------ *)
Lines == transaction_csv_file.lines

(* The data lines load has gone through without raising *)
Processed == IF pc \in {"loop", "done"} THEN SubSeq(Lines, 2, cursor - 1) ELSE <<>>

(* load has just gone through a data line without raising *)
JustProcessed == pc \in {"loop", "done"} /\ cursor > 2

LastLine == Lines[cursor - 1]

LastRecord == result[Len(result)]

(* load raised while working on the line under the cursor *)
FailedOnLine == pc = "failed" /\ error = "IndexError"

FailingLine == Lines[cursor]

HasType(line) == Len(line) > TRANSACTION_TYPE_INDEX

(* The line's discriminator, as the classifier reads it *)
TypeOf(line) == Strip(At(line, TRANSACTION_TYPE_INDEX))

MappedTypes ==
    { REFERRAL_COMMISSION, STAKING_REWARDS, CRYPTO_DEPOSIT, CRYPTO_WITHDRAWAL, BUY, SELL }

IsMapped(line) == HasType(line) /\ TypeOf(line) \in MappedTypes

(* A data line in the full column layout of the export *)
WellFormed(line) == Len(line) = Len(HEADER)

RawDatas(records) == [i \in 1..Len(records) |-> records[i].raw_data]

JoinAll(lines) == [i \in 1..Len(lines) |-> Join(lines[i])]

(* The number of fields the rule matched by a type reads, the fields     *)
(* extracted from every line included                                     *)
RequiredFields(type) ==
    IF type \in {REFERRAL_COMMISSION, STAKING_REWARDS, CRYPTO_DEPOSIT, CRYPTO_WITHDRAWAL}
    THEN PRIMARY_ASSET_SPOT_PRICE + 1
    ELSE IF type \in {BUY, SELL}
    THEN BASE_ASSET_AMOUNT_SPOT_PRICE_INDEX + 1
    ELSE CURRENCY_INDEX + 1

TooShort(line) == ~HasType(line) \/ Len(line) < RequiredFields(TypeOf(line))

(* ------------------------------------------------------------------ *)
(* C1                                                                   *)
(* ------------------------------------------------------------------ *)

(* C1: the records load has built are, in input order, exactly one per   *)
(* line gone through whose type is Referral Commission, Staking Rewards,  *)
(* Crypto Deposit, Crypto Withdrawal, Buy or Sell, and none for any other *)
(* line; load returns that list, and a readable file with a header whose  *)
(* data lines are all well-formed never makes it fail.                    *)
C1_OrderedOnePerMappedRow ==
    /\ pc \in {"loop", "done"} =>
           RawDatas(result) = JoinAll(SelectSeq(Processed, IsMapped))
    /\ pc = "done" =>
           /\ returned = [has |-> TRUE, value |-> result]
           /\ Len(Processed) = Len(Lines) - 1
    /\ ( /\ transaction_csv_file.readable
         /\ Len(Lines) > 0
         /\ \A i \in 2..Len(Lines) : WellFormed(Lines[i]) ) => pc # "failed"

(* C1 witness: load returned two records for two well-formed lines of     *)
(* different types, in the order of the lines.                            *)
C1_Witness ==
    /\ pc = "done"
    /\ Len(Lines) = 3
    /\ WellFormed(Lines[2]) /\ WellFormed(Lines[3])
    /\ Len(returned.value) = 2
    /\ returned.value[1].raw_data = Join(Lines[2])
    /\ returned.value[2].raw_data = Join(Lines[3])
    /\ Lines[2] # Lines[3]

(* ------------------------------------------------------------------ *)
(* C3                                                                   *)
(* ------------------------------------------------------------------ *)

(* C3: load raises on a line exactly when the line has fewer fields than  *)
(* the rule matched by its type reads; the error leaves load, which then  *)
(* returns nothing, whatever it had mapped before; a line with all the    *)
(* fields of its rule never raises.                                       *)
C3_ShortRowAbortsLoad ==
    /\ FailedOnLine => TooShort(FailingLine)
    /\ \A i \in 1..Len(Processed) : ~TooShort(Processed[i])
    /\ pc = "failed" => returned = NoReturn
    /\ returned.has => pc = "done"

(* C3 witness: load failed on a line that has a type but too few fields,  *)
(* after mapping an earlier line, and returned nothing.                   *)
C3_Witness ==
    /\ FailedOnLine
    /\ HasType(FailingLine)
    /\ TypeOf(FailingLine) = BUY
    /\ Len(result) = 1
    /\ returned = NoReturn

(* ------------------------------------------------------------------ *)
(* C8                                                                   *)
(* ------------------------------------------------------------------ *)

(* C8: the file handle is open while the header is read and the lines are *)
(* iterated, and is not open once load has ended, whether it returned,    *)
(* raised on a line, or raised reading the header.                        *)
C8_HandleReleased ==
    /\ pc \in {"header", "loop"} => handle = "open"
    /\ pc = "done" => handle = "closed"
    /\ pc = "failed" => handle # "open"
    /\ (pc = "failed" /\ error \in {"StopIteration", "IndexError"}) => handle = "closed"

(* C8 witness: reading the header of an empty file failed and the handle  *)
(* was closed.                                                            *)
C8_Witness ==
    /\ pc = "failed"
    /\ error = "StopIteration"
    /\ Len(Lines) = 0
    /\ handle = "closed"

(* ------------------------------------------------------------------ *)
(* C2                                                                   *)
(* ------------------------------------------------------------------ *)

(* The type literals the chain tests for *)
KnownLiterals == MappedTypes \cup {USD_DEPOSIT}

(* The deposit type of the reporting fiat currency the plugin was built   *)
(* with: "USD Deposit" without an override                                *)
ReportingFiatDeposit == IF native_fiat = NONE THEN USD_DEPOSIT ELSE native_fiat \o " Deposit"

Unrecognized(line) ==
    /\ HasType(line)
    /\ TypeOf(line) \notin KnownLiterals
    /\ TypeOf(line) # ReportingFiatDeposit

ErrorLoggedFor(line) ==
    \E k \in 1..Len(log) :
        /\ log[k].level = "error"
        /\ \E a \in 1..Len(log[k].args) : log[k].args[a] = Join(line)

NoRecordFor(line) == \A k \in 1..Len(result) : result[k].raw_data # Join(line)

(* What load does with every unrecognized line it gets through, and with  *)
(* the mappable lines after it                                            *)
C2_SkippedWithError ==
    /\ \A i \in 1..Len(Processed) :
           Unrecognized(Processed[i]) =>
               /\ NoRecordFor(Processed[i])
               /\ ErrorLoggedFor(Processed[i])
    /\ JustProcessed /\ Unrecognized(LastLine) =>
           /\ log[Len(log)] = UnsupportedError(LastLine)
           /\ handle = "open" \/ pc = "done"
    /\ pc = "done" =>
           \A i \in 1..Len(Processed) : \A j \in (i + 1)..Len(Processed) :
               (Unrecognized(Processed[i]) /\ IsMapped(Processed[j])) =>
                   \E k \in 1..Len(returned.value) :
                       returned.value[k].raw_data = Join(Processed[j])

(* C2 as stated: load never fails on a line whose type is unrecognized,   *)
(* appends no record for it, logs an error holding the raw line, and goes *)
(* on to the later lines.                                                 *)
C2_Original ==
    /\ C2_SkippedWithError
    /\ ~(FailedOnLine /\ Unrecognized(FailingLine))

(* C2 amended: load fails on a line whose type is unrecognized only when  *)
(* the line has fewer than the seven fields read from every line;         *)
(* otherwise it appends no record for it, logs an error holding the raw   *)
(* line and goes on, and when load returns, every later mappable line has *)
(* its record.                                                            *)
C2_UnrecognizedRowSkipped ==
    /\ C2_SkippedWithError
    /\ (FailedOnLine /\ Unrecognized(FailingLine)) => Len(FailingLine) <= CURRENCY_INDEX
    /\ \A i \in 1..Len(Processed) :
           Unrecognized(Processed[i]) => Len(Processed[i]) > CURRENCY_INDEX

(* C2 witness: load returned after an unrecognized line followed by a     *)
(* mappable one: the error is logged and only the later line has a        *)
(* record.                                                                *)
C2_Witness ==
    /\ pc = "done"
    /\ Len(Processed) = 2
    /\ Unrecognized(Processed[1])
    /\ IsMapped(Processed[2])
    /\ ErrorLoggedFor(Processed[1])
    /\ Len(returned.value) = 1
    /\ returned.value[1].raw_data = Join(Processed[2])

(* ------------------------------------------------------------------ *)
(* C4                                                                   *)
(* ------------------------------------------------------------------ *)

(* C4: a Buy line and a Sell line both yield an InTransaction of type buy *)
(* whose asset, amount and spot price are the line's base-asset fields,   *)
(* by the same mapping; no OutTransaction is ever built.                  *)
C4_SellMappedAsBuy ==
    /\ (JustProcessed /\ TypeOf(LastLine) \in {BUY, SELL}) =>
           /\ Len(result) >= 1
           /\ LastRecord.raw_data = Join(LastLine)
           /\ LastRecord.class = "InTransaction"
           /\ LastRecord.transaction_type = Keyword_BUY
           /\ LastRecord.asset = Strip(At(LastLine, BASE_ASSET_INDEX))
           /\ LastRecord.crypto_in = Strip(At(LastLine, BASE_ASSET_AMOUNT_INDEX))
           /\ LastRecord.spot_price = Strip(At(LastLine, BASE_ASSET_AMOUNT_SPOT_PRICE_INDEX))
    /\ \A k \in 1..Len(result) : result[k].class # "OutTransaction"
    /\ \A k \in 1..Len(returned.value) : returned.value[k].class # "OutTransaction"

(* C4 witness: a Sell line has just been mapped to an InTransaction.      *)
C4_Witness ==
    /\ JustProcessed
    /\ TypeOf(LastLine) = SELL
    /\ Len(result) >= 1
    /\ LastRecord.raw_data = Join(LastLine)
    /\ LastRecord.class = "InTransaction"

(* ------------------------------------------------------------------ *)
(* C5                                                                   *)
(* ------------------------------------------------------------------ *)

SkipLoggedFor(line) ==
    \E k \in 1..Len(log) :
        /\ log[k].level = "debug"
        /\ log[k].msg = "Skipping USD deposit %s"
        /\ log[k].args = <<Join(line)>>

(* C5: a line whose type is "USD Deposit", or the deposit type of the     *)
(* reporting fiat currency the plugin was built with, appends no record   *)
(* and is logged at debug level, not at error level.                      *)
C5_FiatDepositSkipped ==
    \A i \in 1..Len(Processed) :
        (HasType(Processed[i]) /\ TypeOf(Processed[i]) \in {USD_DEPOSIT, ReportingFiatDeposit}) =>
            /\ NoRecordFor(Processed[i])
            /\ SkipLoggedFor(Processed[i])
            /\ ~ErrorLoggedFor(Processed[i])

(* ------------------------------------------------------------------ *)
(* C6                                                                   *)
(* ------------------------------------------------------------------ *)

JustMapped(type) ==
    /\ JustProcessed
    /\ TypeOf(LastLine) = type
    /\ Len(result) >= 1
    /\ LastRecord.raw_data = Join(LastLine)

(* The sides of a transfer: this exchange and holder on one, the unknown  *)
(* placeholder, never empty, on the other                                 *)
C6_Sides(type) ==
    JustMapped(type) =>
        /\ LastRecord.class = "IntraTransaction"
        /\ Keyword_UNKNOWN # ""
        /\ IF type = CRYPTO_DEPOSIT
           THEN /\ LastRecord.crypto_sent = "0"
                /\ LastRecord.to_exchange = BINANCE
                /\ LastRecord.to_holder = account_holder
                /\ LastRecord.from_exchange = Keyword_UNKNOWN
                /\ LastRecord.from_holder = Keyword_UNKNOWN
           ELSE /\ LastRecord.crypto_received = "0"
                /\ LastRecord.from_exchange = BINANCE
                /\ LastRecord.from_holder = account_holder
                /\ LastRecord.to_exchange = Keyword_UNKNOWN
                /\ LastRecord.to_holder = Keyword_UNKNOWN

C6_EveryTransferBuilt ==
    \A type \in {CRYPTO_DEPOSIT, CRYPTO_WITHDRAWAL} :
        (JustProcessed /\ TypeOf(LastLine) = type) => JustMapped(type)

(* C6 as stated: the amount received of a Crypto Deposit, and the amount  *)
(* sent of a Crypto Withdrawal, is the line's primary-asset-amount field; *)
(* the other amount is "0"; this exchange and holder are on the receiving *)
(* (sending) side and the unknown placeholder on the other.               *)
C6_Original ==
    /\ C6_EveryTransferBuilt
    /\ C6_Sides(CRYPTO_DEPOSIT)
    /\ C6_Sides(CRYPTO_WITHDRAWAL)
    /\ JustMapped(CRYPTO_DEPOSIT) =>
           LastRecord.crypto_received = At(LastLine, PRIMARY_ASSET_AMOUNT)
    /\ JustMapped(CRYPTO_WITHDRAWAL) =>
           LastRecord.crypto_sent = At(LastLine, PRIMARY_ASSET_AMOUNT)

(* C6 amended: as stated, the amount being the line's primary-asset-      *)
(* amount field with the surrounding whitespace removed.                  *)
C6_TransferSides ==
    /\ C6_EveryTransferBuilt
    /\ C6_Sides(CRYPTO_DEPOSIT)
    /\ C6_Sides(CRYPTO_WITHDRAWAL)
    /\ JustMapped(CRYPTO_DEPOSIT) =>
           LastRecord.crypto_received = Strip(At(LastLine, PRIMARY_ASSET_AMOUNT))
    /\ JustMapped(CRYPTO_WITHDRAWAL) =>
           LastRecord.crypto_sent = Strip(At(LastLine, PRIMARY_ASSET_AMOUNT))

(* C6 witness: a Crypto Deposit line with a padded amount has just been   *)
(* mapped to a transfer into this exchange.                               *)
C6_Witness ==
    /\ JustMapped(CRYPTO_DEPOSIT)
    /\ At(LastLine, PRIMARY_ASSET_AMOUNT) # Strip(At(LastLine, PRIMARY_ASSET_AMOUNT))
    /\ LastRecord.class = "IntraTransaction"
    /\ LastRecord.to_exchange = BINANCE

(* ------------------------------------------------------------------ *)
(* C7                                                                   *)
(* ------------------------------------------------------------------ *)

RECURSIVE OnlyZeroDigits(_)
OnlyZeroDigits(s) == Len(s) = 0 \/ (Head(s) \in {"0", "."} /\ OnlyZeroDigits(Tail(s)))

(* The decimal text denotes zero *)
IsZero(s) == s \notin {"", "."} /\ OnlyZeroDigits(s)

Transfers == { k \in 1..Len(result) : result[k].class = "IntraTransaction" }

(* C7 as stated: in every transfer built, exactly one of amount sent and  *)
(* amount received is zero.                                               *)
C7_Original ==
    \A k \in Transfers : IsZero(result[k].crypto_sent) # IsZero(result[k].crypto_received)

(* C7 amended: in every transfer built, one of amount sent and amount     *)
(* received is the literal "0" and the other is the line's trimmed        *)
(* primary amount: exactly one of the two is zero unless the line's own   *)
(* amount is zero, and then both are.                                     *)
C7_OneSideZero ==
    /\ \A k \in Transfers :
           \/ result[k].crypto_sent = "0" /\ result[k].to_exchange = BINANCE
           \/ result[k].crypto_received = "0" /\ result[k].from_exchange = BINANCE
    /\ \A type \in {CRYPTO_DEPOSIT, CRYPTO_WITHDRAWAL} :
           JustMapped(type) =>
               LET amount == Strip(At(LastLine, PRIMARY_ASSET_AMOUNT)) IN
               /\ LastRecord.class = "IntraTransaction"
               /\ {LastRecord.crypto_sent, LastRecord.crypto_received} = {"0", amount}
               /\ ~IsZero(amount) =>
                      IsZero(LastRecord.crypto_sent) # IsZero(LastRecord.crypto_received)
               /\ IsZero(amount) =>
                      IsZero(LastRecord.crypto_sent) /\ IsZero(LastRecord.crypto_received)

(* C7 witness: a Crypto Withdrawal line whose amount is zero has just     *)
(* been mapped to a transfer with both amounts zero.                      *)
C7_Witness ==
    /\ JustMapped(CRYPTO_WITHDRAWAL)
    /\ IsZero(At(LastLine, PRIMARY_ASSET_AMOUNT))
    /\ LastRecord.crypto_received = "0"
    /\ IsZero(LastRecord.crypto_sent)

(* ------------------------------------------------------------------ *)
(* C9                                                                   *)
(* ------------------------------------------------------------------ *)

JustMappedAny ==
    /\ JustProcessed
    /\ IsMapped(LastLine)
    /\ Len(result) >= 1
    /\ LastRecord.raw_data = Join(LastLine)

(* C9 as stated: the timestamp of every record is the line's timestamp    *)
(* field followed by " -00:00".                                           *)
C9_Original ==
    /\ (JustProcessed /\ IsMapped(LastLine)) => JustMappedAny
    /\ JustMappedAny => LastRecord.timestamp = At(LastLine, TIMESTAMP_INDEX) \o " -00:00"

(* C9 amended: the timestamp of every record, of every variant, is the    *)
(* line's timestamp field with the surrounding whitespace removed,        *)
(* followed by " -00:00".                                                 *)
C9_TimestampSuffix ==
    /\ (JustProcessed /\ IsMapped(LastLine)) => JustMappedAny
    /\ JustMappedAny =>
           LastRecord.timestamp = Strip(At(LastLine, TIMESTAMP_INDEX)) \o " -00:00"

(* C9 witness: a transfer has just been built from a line whose timestamp *)
(* field is padded.                                                       *)
C9_Witness ==
    /\ JustMappedAny
    /\ LastRecord.class = "IntraTransaction"
    /\ At(LastLine, TIMESTAMP_INDEX) # Strip(At(LastLine, TIMESTAMP_INDEX))
    /\ LastRecord.timestamp = "2022-01-02 08:00:00 -00:00"

(* ------------------------------------------------------------------ *)
(* C10                                                                  *)
(* ------------------------------------------------------------------ *)

C10_Classified(type, tag) ==
    /\ (JustProcessed /\ TypeOf(LastLine) = type) => JustMapped(type)
    /\ JustMapped(type) =>
           /\ LastRecord.class = "InTransaction"
           /\ LastRecord.fiat_fee = "0"
           /\ LastRecord.transaction_type = tag

(* C10 as stated: a Staking Rewards or Referral Commission line yields an *)
(* InTransaction whose asset is the line's primary-asset field, whose fee *)
(* is "0", classified interest or income respectively.                    *)
C10_Original ==
    /\ C10_Classified(REFERRAL_COMMISSION, Keyword_INCOME)
    /\ C10_Classified(STAKING_REWARDS, Keyword_INTEREST)
    /\ \A type \in {REFERRAL_COMMISSION, STAKING_REWARDS} :
           JustMapped(type) => LastRecord.asset = At(LastLine, CURRENCY_INDEX)

(* C10 amended: as stated, the asset being the line's primary-asset field *)
(* with the surrounding whitespace removed.                               *)
C10_IncomeInflow ==
    /\ C10_Classified(REFERRAL_COMMISSION, Keyword_INCOME)
    /\ C10_Classified(STAKING_REWARDS, Keyword_INTEREST)
    /\ \A type \in {REFERRAL_COMMISSION, STAKING_REWARDS} :
           JustMapped(type) => LastRecord.asset = Strip(At(LastLine, CURRENCY_INDEX))

(* C10 witness: a Staking Rewards line with a padded asset field has just *)
(* been mapped to an interest InTransaction of the trimmed asset.         *)
C10_Witness ==
    /\ JustMapped(STAKING_REWARDS)
    /\ At(LastLine, CURRENCY_INDEX) = " ETH"
    /\ LastRecord.asset = "ETH"
    /\ LastRecord.transaction_type = Keyword_INTEREST

====
